---- MODULE Spec2Model ----
(***************************************************************************)
(* A model of the existence-proof verifier of veriffio/client-go:          *)
(*   proof.Proof.Verify and recData   (src/proof/prove.go)                 *)
(*   the operation registry           (src/unnamed/part_001)               *)
(*   client.Client.Prove and send     (src/client/client.go)               *)
(*                                                                         *)
(* A byte buffer is a sequence of numbers 0..255.  A call is one action:   *)
(* Init draws the caller's arguments and the proof document, the action    *)
(* runs the whole function and stores what it returned in `result`.        *)
(*                                                                         *)
(* Abstractions.  Go's int is modelled as a two's-complement integer of    *)
(* IntBits bits (negation and subtraction wrap exactly as in Go, on a      *)
(* narrower word).  The two hash functions are modelled as deterministic   *)
(* digests of fixed length 1 and 2 computed by a rolling polynomial over   *)
(* the input bytes: they depend on every input byte, on the order of the   *)
(* bytes and on the function chosen.  The decimal suffix that some error   *)
(* messages carry is dropped: an error is its fixed text.                  *)
(***************************************************************************)
EXTENDS Integers, Sequences, FiniteSets, TLC

VARIABLES
    entry,      \* which exported function the caller invokes: "Verify" or "Prove"
    p,          \* the proof document (Verify's receiver / the prove response's proof)
    data,       \* Verify's data argument / the bytes of Prove's data reader
    timestamp,  \* Verify's timestamp argument
    token,      \* Prove's token argument
    resp,       \* the HTTP exchange Prove's send observed
    pc,         \* "init" before the call, "walk" in Verify's third loop, "done" after it
    result,     \* what the call returned
    walk        \* the third loop of Verify: the reference it is at, recData's call stack

vars == <<entry, p, data, timestamp, token, resp, pc, result, walk>>

----------------------------------------------------------------------------
(* Bounds of the model *)

\* width of the modelled machine integer, in bits
IntBits == 6
\* longest literal list of a generated document
MaxLits == 2
\* longest operation list of a generated document
MaxOps == 2
\* longest reference list of a generated document
MaxRefs == 2

----------------------------------------------------------------------------
(* Machine integers *)

MinInt == -(2 ^ (IntBits - 1))
MaxInt == (2 ^ (IntBits - 1)) - 1

\* the value a Go int holds after an arithmetic result x: wrap-around
Wrap(x) == ((x - MinInt) % (2 ^ IntBits)) + MinInt

\* Go's unary minus on int
Neg(x) == Wrap(0 - x)

\* Go's binary minus on int
Sub(x, y) == Wrap(x - y)

----------------------------------------------------------------------------
(* Small helpers on sequences *)

Range(s) == {s[i] : i \in 1..Len(s)}

\* all sequences over S of length lo..hi
SeqsOf(S, lo, hi) == UNION {[1..n -> S] : n \in lo..hi}

\* Go's s[i] for a 0-based index i: in range or a run-time panic
InBounds(s, i) == i >= 0 /\ i < Len(s)

----------------------------------------------------------------------------
(* The operation registry *)

SHA2_256 == "sha2_256"
SHA3_512 == "sha3_512"

\* the keys of the map `operations`
Registered == {SHA2_256, SHA3_512}

RECURSIVE Mix(_, _, _)
\* rolling digest of in[i..], h the state so far
Mix(in, i, h) ==
    IF i > Len(in) THEN h ELSE Mix(in, i + 1, (h * 31 + in[i] + 1) % 251)

opSha2_256(in) == <<Mix(in, 1, 7)>>

opSha3_512(in) == <<Mix(in, 1, 11), Mix(in, 1, 13)>>

\* operations[t](in), for a registered t
ApplyOp(t, in) == IF t = SHA2_256 THEN opSha2_256(in) ELSE opSha3_512(in)

----------------------------------------------------------------------------
(* Strings as the bytes Go compares them by *)

StrBytes(s) ==
    CASE s = "sha2_256" -> <<115, 104, 97, 50, 95, 50, 53, 54>>
      [] s = "sha3_512" -> <<115, 104, 97, 51, 95, 53, 49, 50>>
      [] s = "md5"      -> <<109, 100, 53>>
      [] OTHER          -> <<>>

RECURSIVE BytesLess(_, _, _)
\* a < b lexicographically, comparing from position i
BytesLess(a, b, i) ==
    IF i > Len(a) THEN i <= Len(b)
    ELSE IF i > Len(b) THEN FALSE
    ELSE IF a[i] # b[i] THEN a[i] < b[i]
    ELSE BytesLess(a, b, i + 1)

\* Go's s < t on strings
StrLess(s, t) == BytesLess(StrBytes(s), StrBytes(t), 1)

RECURSIVE InsertSorted(_, _)
InsertSorted(s, x) ==
    IF s = <<>> THEN <<x>>
    ELSE IF StrLess(x, Head(s)) THEN <<x>> \o s
    ELSE <<Head(s)>> \o InsertSorted(Tail(s), x)

RECURSIVE SortStrings(_)
\* sort.Strings: the slice in increasing order, every element kept
SortStrings(s) ==
    IF s = <<>> THEN <<>> ELSE InsertSorted(SortStrings(Tail(s)), Head(s))

----------------------------------------------------------------------------
(* binary.BigEndian.PutUint64(tdata, uint64(timestamp)) *)

\* byte k (0 = least significant) of a non-negative n below 2^24
ByteOf(n, k) == IF k > 2 THEN 0 ELSE (n \div (256 ^ k)) % 256

\* uint64(t) is t for t >= 0 and the bitwise complement of -t-1 for t < 0
PutUint64(t) ==
    [i \in 1..8 |->
        IF t >= 0 THEN ByteOf(t, 8 - i) ELSE 255 - ByteOf((0 - t) - 1, 8 - i)]

----------------------------------------------------------------------------
(* Results of a call *)

Err(msg) == [kind |-> "error", err |-> msg, refs |-> <<>>]
Ok(refs) == [kind |-> "ok", err |-> "", refs |-> refs]
\* a run-time panic (index out of range): the call does not return
Panic == [kind |-> "panic", err |-> "index out of range", refs |-> <<>>]
NoResult == [kind |-> "none", err |-> "", refs |-> <<>>]

----------------------------------------------------------------------------
(* Proof.Verify, first loop: run the operations *)

RECURSIVE GatherInputsOffByOne(_, _, _, _, _)
\* GatherInputs with the output of -di read at index -di instead of -di-1
GatherInputsOffByOne(doc, o, j, outData, inBuf) ==
    IF j > Len(o.Data) THEN [kind |-> "ok", buf |-> inBuf]
    ELSE LET di == o.Data[j] IN
        IF di < 0 THEN
            IF Neg(di) > Len(outData)
            THEN Err("referencing a output not yet calculated")
            ELSE LET i == Neg(di) IN
                IF ~InBounds(outData, i) THEN Panic
                ELSE GatherInputsOffByOne(doc, o, j + 1, outData, inBuf \o outData[i + 1])
        ELSE IF di < Len(doc.Data)
        THEN GatherInputsOffByOne(doc, o, j + 1, outData, inBuf \o doc.Data[di + 1])
        ELSE Err("refering to undefined data element")

RECURSIVE GatherInputsSkipDangling(_, _, _, _, _)
\* GatherInputs with an output that does not exist yet left out of the
\* buffer instead of refused
GatherInputsSkipDangling(doc, o, j, outData, inBuf) ==
    IF j > Len(o.Data) THEN [kind |-> "ok", buf |-> inBuf]
    ELSE LET di == o.Data[j] IN
        IF di < 0 THEN
            IF Neg(di) > Len(outData)
            THEN GatherInputsSkipDangling(doc, o, j + 1, outData, inBuf)
            ELSE LET i == Sub(Neg(di), 1) IN
                IF ~InBounds(outData, i) THEN Panic
                ELSE GatherInputsSkipDangling(doc, o, j + 1, outData, inBuf \o outData[i + 1])
        ELSE IF di < Len(doc.Data)
        THEN GatherInputsSkipDangling(doc, o, j + 1, outData, inBuf \o doc.Data[di + 1])
        ELSE Err("refering to undefined data element")

RECURSIVE GatherInputs(_, _, _, _, _)
\* the loop over o.Data from its j-th element, inBuf the buffer so far
GatherInputs(doc, o, j, outData, inBuf) ==
    IF j > Len(o.Data) THEN [kind |-> "ok", buf |-> inBuf]
    ELSE LET di == o.Data[j] IN
        IF di < 0 THEN
            IF Neg(di) > Len(outData)
            THEN Err("referencing a output not yet calculated")
            ELSE LET i == Sub(Neg(di), 1) IN
                IF ~InBounds(outData, i) THEN Panic
                ELSE GatherInputs(doc, o, j + 1, outData, inBuf \o outData[i + 1])
        ELSE IF di < Len(doc.Data)
        THEN GatherInputs(doc, o, j + 1, outData, inBuf \o doc.Data[di + 1])
        ELSE Err("refering to undefined data element")

RECURSIVE RunOperationsInputsFirst(_, _, _)
\* RunOperations with the input count checked before the type
RunOperationsInputsFirst(doc, k, outData) ==
    IF k > Len(doc.Operations) THEN [kind |-> "ok", out |-> outData]
    ELSE LET o == doc.Operations[k] IN
        IF Len(o.Data) <= 0 THEN Err("each operation mush have an input")
        ELSE IF o.Type \notin Registered THEN Err("unknown operation")
        ELSE LET g == GatherInputs(doc, o, 1, outData, <<>>) IN
            IF g.kind # "ok" THEN g
            ELSE RunOperationsInputsFirst(doc, k + 1,
                                          Append(outData, ApplyOp(o.Type, g.buf)))

RECURSIVE RunOperations(_, _, _)
\* the loop over p.Operations from its k-th element, outData the outputs so far
RunOperations(doc, k, outData) ==
    IF k > Len(doc.Operations) THEN [kind |-> "ok", out |-> outData]
    ELSE LET o == doc.Operations[k] IN
        IF o.Type \notin Registered THEN Err("unknown operation")
        ELSE IF Len(o.Data) <= 0 THEN Err("each operation mush have an input")
        ELSE LET g == GatherInputs(doc, o, 1, outData, <<>>) IN
            IF g.kind # "ok" THEN g
            ELSE RunOperations(doc, k + 1, Append(outData, ApplyOp(o.Type, g.buf)))

----------------------------------------------------------------------------
(* Proof.Verify, second loop: resolve the references *)

RECURSIVE ResolveReferences(_, _, _, _)
\* the loop over p.References from its ri-th element, refData the entries so far
ResolveReferences(doc, ri, outData, refData) ==
    IF ri > Len(doc.References) THEN [kind |-> "ok", refData |-> refData]
    ELSE LET r == doc.References[ri] IN
        IF r.Ref = "" THEN Err("cannot have empty reference")
        ELSE IF r.Data < 0 THEN
            IF Neg(r.Data) <= Len(outData) THEN
                LET i == Sub(Neg(r.Data), 1) IN
                IF ~InBounds(outData, i) THEN Panic
                ELSE ResolveReferences(doc, ri + 1, outData,
                        Append(refData,
                               [data |-> outData[i + 1], ref |-> r.Ref, hashes |-> <<>>]))
            ELSE Err("reference refers to non-existing data")
        ELSE IF r.Data < Len(doc.Data)
        THEN Err("reference must refer to calculated data")
        ELSE Err("reference refers to non-existing data")

----------------------------------------------------------------------------
(* recData: the walk back from a position to the literals it depends on *)

\* A Go map is ranged over in an unspecified order.  mapOrder lists the
\* registered names in the order this call's range loops visit them.
MapOrders == {<<SHA2_256, SHA3_512>>, <<SHA3_512, SHA2_256>>}

\* the operation p.Operations[-pos-1] of a negative position
OperationAt(doc, pos) == doc.Operations[Sub(Neg(pos), 1) + 1]

RECURSIVE recData(_, _, _, _, _)
RECURSIVE recInputs(_, _, _, _, _, _, _)
RECURSIVE recInputsUnconditional(_, _, _, _, _, _, _)

\* recInputs with the names of an input collected whether or not the input
\* matched
recInputsUnconditional(doc, d, tdata, o, j, acc, mapOrder) ==
    IF j > Len(o.Data) THEN acc
    ELSE LET r == recData(doc, d, tdata, o.Data[j], mapOrder)
             add == \A i \in 1..Len(r.hashes) : r.hashes[i] # o.Type
             hashes == IF add THEN Append(r.hashes, o.Type) ELSE r.hashes
         IN recInputsUnconditional(doc, d, tdata, o, j + 1,
                                   [o1 |-> acc.o1 \/ r.okd,
                                    o2 |-> acc.o2 \/ r.okt,
                                    h  |-> acc.h \cup Range(hashes)],
                                   mapOrder)

\* the loop over the inputs of operation o from its j-th element;
\* acc holds o1, o2 and the key set of the map h
recInputs(doc, d, tdata, o, j, acc, mapOrder) ==
    IF j > Len(o.Data) THEN acc
    ELSE LET r == recData(doc, d, tdata, o.Data[j], mapOrder) IN
        IF r.okd \/ r.okt THEN
            LET add == \A i \in 1..Len(r.hashes) : r.hashes[i] # o.Type
                hashes == IF add THEN Append(r.hashes, o.Type) ELSE r.hashes
            IN recInputs(doc, d, tdata, o, j + 1,
                         [o1 |-> acc.o1 \/ r.okd,
                          o2 |-> acc.o2 \/ r.okt,
                          h  |-> acc.h \cup Range(hashes)],
                         mapOrder)
        ELSE recInputs(doc, d, tdata, o, j + 1, acc, mapOrder)

recData(doc, d, tdata, pos, mapOrder) ==
    IF pos >= 0
    THEN [okd |-> d = doc.Data[pos + 1],
          okt |-> tdata = doc.Data[pos + 1],
          hashes |-> <<>>]
    ELSE LET acc == recInputs(doc, d, tdata, OperationAt(doc, pos), 1,
                              [o1 |-> FALSE, o2 |-> FALSE, h |-> {}], mapOrder)
         IN [okd |-> acc.o1,
             okt |-> acc.o2,
             hashes |-> SelectSeq(mapOrder, LAMBDA k : k \in acc.h)]

----------------------------------------------------------------------------
(* Proof.Verify, third loop and the whole function *)

RECURSIVE AcceptReferencesAlwaysTimestamp(_, _, _, _, _, _, _)
\* AcceptReferences with the timestamp required even when none is supplied
AcceptReferencesAlwaysTimestamp(doc, d, tdata, refData, ri, refs, mapOrder) ==
    IF ri > Len(doc.References) THEN refs
    ELSE LET r == recData(doc, d, tdata, doc.References[ri].Data, mapOrder) IN
        IF r.okd /\ r.okt
        THEN AcceptReferencesAlwaysTimestamp(doc, d, tdata, refData, ri + 1,
                 Append(refs, [refData[ri] EXCEPT !.hashes = SortStrings(r.hashes)]),
                 mapOrder)
        ELSE AcceptReferencesAlwaysTimestamp(doc, d, tdata, refData, ri + 1, refs, mapOrder)

RECURSIVE AcceptReferencesPrepend(_, _, _, _, _, _, _)
\* AcceptReferences with an accepted entry put in front of the slice
AcceptReferencesPrepend(doc, d, tdata, refData, ri, refs, mapOrder) ==
    IF ri > Len(doc.References) THEN refs
    ELSE LET r == recData(doc, d, tdata, doc.References[ri].Data, mapOrder) IN
        IF r.okd /\ (Len(tdata) = 0 \/ r.okt)
        THEN AcceptReferencesPrepend(doc, d, tdata, refData, ri + 1,
                 <<[refData[ri] EXCEPT !.hashes = SortStrings(r.hashes)]>> \o refs,
                 mapOrder)
        ELSE AcceptReferencesPrepend(doc, d, tdata, refData, ri + 1, refs, mapOrder)

RECURSIVE AcceptReferences(_, _, _, _, _, _, _)
\* the loop over p.References from its ri-th element, refs the slice so far
AcceptReferences(doc, d, tdata, refData, ri, refs, mapOrder) ==
    IF ri > Len(doc.References) THEN refs
    ELSE LET r == recData(doc, d, tdata, doc.References[ri].Data, mapOrder) IN
        IF r.okd /\ (Len(tdata) = 0 \/ r.okt)
        THEN AcceptReferences(doc, d, tdata, refData, ri + 1,
                 Append(refs, [refData[ri] EXCEPT !.hashes = SortStrings(r.hashes)]),
                 mapOrder)
        ELSE AcceptReferences(doc, d, tdata, refData, ri + 1, refs, mapOrder)

\* tdata as built at the top of Verify
TimestampData(ts) == IF ts # 0 THEN PutUint64(ts) ELSE <<>>

\* Verify without the final check for an empty result
VerifyNoEmptyCheck(doc, d, ts, mapOrder) ==
    IF Len(d) <= 0 THEN Err("no data to verify")
    ELSE IF Len(doc.Data) <= 0 THEN Err("no data in proof")
    ELSE IF \E i \in 1..Len(doc.Data) : Len(doc.Data[i]) < 1
    THEN Err("data number is empty")
    ELSE IF Len(doc.References) <= 0 THEN Err("no referene")
    ELSE LET ops == RunOperations(doc, 1, <<>>) IN
        IF ops.kind # "ok" THEN ops
        ELSE LET rr == ResolveReferences(doc, 1, ops.out, <<>>) IN
            IF rr.kind # "ok" THEN rr
            ELSE Ok(AcceptReferences(doc, d, TimestampData(ts),
                                     rr.refData, 1, <<>>, mapOrder))

Verify(doc, d, ts, mapOrder) ==
    IF Len(d) <= 0 THEN Err("no data to verify")
    ELSE IF Len(doc.Data) <= 0 THEN Err("no data in proof")
    ELSE IF \E i \in 1..Len(doc.Data) : Len(doc.Data[i]) < 1
    THEN Err("data number is empty")
    ELSE IF Len(doc.References) <= 0 THEN Err("no referene")
    ELSE LET ops == RunOperations(doc, 1, <<>>) IN
        IF ops.kind # "ok" THEN ops
        ELSE LET rr == ResolveReferences(doc, 1, ops.out, <<>>) IN
            IF rr.kind # "ok" THEN rr
            ELSE LET refs == AcceptReferences(doc, d, TimestampData(ts),
                                              rr.refData, 1, <<>>, mapOrder)
                 IN IF Len(refs) <= 0
                    THEN Err("the proof proves nothing for the input data")
                    ELSE Ok(refs)

----------------------------------------------------------------------------
(* strconv.ParseInt(s, 10, 64); a string is the sequence of its characters *)

Digits == <<"0", "1", "2", "3", "4", "5", "6", "7", "8", "9">>
IsDigit(c) == \E i \in 1..Len(Digits) : Digits[i] = c
DigitVal(c) == (CHOOSE i \in 1..Len(Digits) : Digits[i] = c) - 1

RECURSIVE DecimalValue(_, _, _)
\* the value of the digit string s[i..] appended to the value acc
DecimalValue(s, i, acc) ==
    IF i > Len(s) THEN acc ELSE DecimalValue(s, i + 1, acc * 10 + DigitVal(s[i]))

\* [ok, val]: ok is false on a syntax error (the strings of the model are
\* too short to leave the 64-bit range)
ParseInt(s) ==
    LET signed == Len(s) > 0 /\ s[1] \in {"+", "-"}
        digits == IF signed THEN Tail(s) ELSE s
        syntax == Len(digits) > 0 /\ \A i \in 1..Len(digits) : IsDigit(digits[i])
        mag    == IF syntax THEN DecimalValue(digits, 1, 0) ELSE 0
    IN [ok |-> syntax,
        val |-> IF signed /\ s[1] = "-" THEN 0 - mag ELSE mag]

----------------------------------------------------------------------------
(* The client: webapi constants, hashData, send and Client.Prove *)

StatusReceived == "received"
StatusInChain == "chained"
StatusProvable == "provable"

ErrStatusReceived == "not yet provable, status received"
ErrStatusInChain == "not yet provable, status in chain"
ErrStatusNotFound == "not yet provable, status not found"

\* what Prove returns: Verify's triple and the timestamp
ProveErr(msg) == [kind |-> "error", err |-> msg, refs |-> <<>>, ts |-> 0]
ProveOk(refs, ts) == [kind |-> "ok", err |-> "", refs |-> refs, ts |-> ts]
ProvePanic == [kind |-> "panic", err |-> "index out of range", refs |-> <<>>, ts |-> 0]

\* hashData on a reader that yields the bytes raw
hashData(raw) ==
    IF Len(raw) <= 0
    THEN [ok |-> FALSE, err |-> "cannot use empty data", s2 |-> <<>>, s3 |-> <<>>]
    ELSE [ok |-> TRUE, err |-> "", s2 |-> opSha2_256(raw), s3 |-> opSha3_512(raw)]

\* ProveRequest.Validate; the digest length is that of the modelled sha2_256
ValidateProveRequest(pr) ==
    IF Len(pr.Token) < 1 THEN "must specify token and hash"
    ELSE IF Len(pr.Sha2_256) # Len(opSha2_256(<<>>))
    THEN "must specify a hash of correct length"
    ELSE ""

\* send(PathProve, "POST", pr, &r): the error it returns ("" for nil), for
\* the exchange x the transport had with the server
send(pr, x) ==
    IF ValidateProveRequest(pr) # "" THEN ValidateProveRequest(pr)
    ELSE IF x.io = "doErr" THEN "transport: request failed"
    ELSE IF x.io = "readErr" THEN "transport: body read failed"
    ELSE IF x.code = 404 THEN ErrStatusNotFound
    ELSE IF x.code = 200
    THEN (IF x.body = "json" THEN "" ELSE "json: cannot unmarshal")
    ELSE IF x.code = 400
    THEN (IF x.body = "json" THEN "400:" ELSE "json: cannot unmarshal")
    ELSE "unexpected response code"

\* Client.Prove on a reader yielding raw; doc is the proof of the response
\* body, m1 and m2 the map orders of the two Verify calls
Prove(raw, tok, x, doc, m1, m2) ==
    LET h == hashData(raw) IN
    IF ~h.ok THEN ProveErr(h.err)
    ELSE IF Len(tok) # 16 THEN ProveErr("incorrect token provided")
    ELSE LET err == send([Token |-> tok, Sha2_256 |-> h.s2], x) IN
        IF err = ErrStatusNotFound THEN ProveErr(ErrStatusNotFound)
        ELSE IF err # "" THEN ProveErr(err)
        ELSE IF h.s2 # x.Sha2_256
        THEN ProveErr("the hash does not match, did you add inconsistent hashes? (sha2_256)")
        ELSE IF h.s3 # x.Sha3_512
        THEN ProveErr("the hash does not match, did you add inconsistent hashes? (sha3_512)")
        ELSE IF x.Status = StatusReceived THEN ProveErr(ErrStatusReceived)
        ELSE IF x.Status = StatusInChain THEN ProveErr(ErrStatusInChain)
        ELSE IF x.Status # StatusProvable THEN ProveErr("unknown proof status: ")
        ELSE LET t == ParseInt(x.Timestamp) IN
            IF ~t.ok THEN ProveErr("bad timestamp returned by server")
            ELSE LET v1 == Verify(doc, h.s2, t.val, m1) IN
                IF v1.kind = "panic" THEN ProvePanic
                ELSE IF v1.kind = "error" THEN ProveErr(v1.err)
                ELSE LET v2 == Verify(doc, h.s3, t.val, m2) IN
                    IF v2.kind = "panic" THEN ProvePanic
                    ELSE IF v2.kind = "error" THEN ProveErr(v2.err)
                    ELSE ProveOk(v1.refs \o v2.refs, t.val)

----------------------------------------------------------------------------
(* The documents and arguments the model runs the calls on *)

Operation(t, in) == [Type |-> t, Data |-> in]
Reference(d, r) == [Data |-> d, Ref |-> r]
Proof(ops, lits, refs) == [Operations |-> ops, Data |-> lits, References |-> refs]

\* type names a document may carry; "md5" is not registered
Types == Registered \cup {"md5"}

L1 == <<1>>
L2 == <<2>>
\* the non-zero timestamp of the model and its encoding as a literal
Timestamps == {0, 258}
TS == <<0, 0, 0, 0, 0, 0, 1, 2>>

\* Family "early": every combination of an empty or present root, literal
\* list, operation list and reference list, each sound or broken.
\* the operations of the package's ExampleProof
ExampleOps == <<Operation(SHA3_512, <<0>>), Operation(SHA2_256, <<-1, 0>>)>>
OpsFew ==
    {<<>>,
     ExampleOps,
     <<Operation(SHA2_256, <<0>>)>>,
     <<Operation("md5", <<0>>)>>,
     <<Operation(SHA2_256, <<>>)>>,
     <<Operation(SHA2_256, <<-1>>)>>}
RefsFew ==
    {<<>>,
     <<Reference(-1, "X")>>,
     <<Reference(-2, "X")>>,
     <<Reference(-1, "")>>,
     <<Reference(0, "X")>>}
InitEarly ==
    /\ data \in {<<>>, L1}
    /\ timestamp = 0
    /\ \E lits \in SeqsOf({<<>>, L1}, 0, MaxLits), ops \in OpsFew, refs \in RefsFew :
          p = Proof(ops, lits, refs)

\* Family "operations": operation lists whose types and input indices range
\* over sound and unsound values, up to the most negative integer.
FullLits == [i \in 1..MaxLits |-> L1]
IdxWide == {MinInt, 0 - MaxOps, -1, 0, MaxLits}
InputsWide == SeqsOf(IdxWide, 0, 1) \cup {<<0, x>> : x \in IdxWide}
OpsWide == {Operation(t, in) : t \in Types, in \in InputsWide}
InitOperations ==
    /\ data = L1
    /\ timestamp = 0
    /\ \E ops \in SeqsOf(OpsWide, 0, MaxOps) :
          p = Proof(ops, FullLits, <<Reference(-1, "X")>>)

\* Family "references": reference lists whose targets and locators range
\* over sound and unsound values, up to the most negative integer.
RefIdxWide == {MinInt, 0 - (MaxOps + 1), -1, 0, MaxLits}
RefsWide == {Reference(d, r) : d \in RefIdxWide, r \in {"", "X"}}
InitReferences ==
    /\ data = L1
    /\ timestamp = 0
    /\ \E ops \in OpsFew, refs \in SeqsOf(RefsWide, 0, MaxRefs) :
          p = Proof(ops, FullLits, refs)

\* Family "trust": documents whose operations are sound (registered type,
\* one or two inputs, each a literal or an earlier output), with every
\* choice of root and timestamp, the one reference targeting the last
\* operation.
TrustLits == <<L1, TS>>
InputsAt(k) ==
    SeqsOf((0 - (k - 1))..(Len(TrustLits) - 1), 1, 2)
SoundOps ==
    UNION {{ops \in [1..n -> UNION {{Operation(t, in) : t \in Registered, in \in InputsAt(k)}
                                      : k \in 1..n}] :
               \A k \in 1..n : ops[k].Data \in InputsAt(k)}
           : n \in 0..MaxOps}
InitTrust ==
    /\ data \in {L1, opSha2_256(L1)}
    /\ timestamp \in Timestamps
    /\ \E ops \in SoundOps :
          p = Proof(ops, TrustLits, <<Reference(0 - Len(ops), "X")>>)

\* Family "order": a chain of two sound operations under every list of
\* references to them.
ChainOps ==
    {<<Operation(t1, <<a>>), Operation(t2, <<-1, b>>)>> :
        t1 \in Registered, t2 \in Registered, a \in {0, 1}, b \in {0, 1}}
ChainRefs == {Reference(d, r) : d \in {-1, -2}, r \in {"X", "Y"}}
InitOrder ==
    /\ data \in {L1, L2}
    /\ timestamp \in Timestamps
    /\ \E ops \in ChainOps, refs \in SeqsOf(ChainRefs, 1, MaxRefs) :
          p = Proof(ops, TrustLits, refs)

\* Family "diamond": three operations, the third depending on the first
\* directly or through the second, on one or two literals.
DiamondOps ==
    {<<Operation(t1, <<a>>), Operation(t2, <<-1, b>>), Operation(t3, in3)>> :
        t1 \in Registered, t2 \in Registered, t3 \in Registered,
        a \in {0, 1}, b \in {0, 1},
        in3 \in {<<-1, -2>>, <<-2, -1>>, <<-2, -2>>, <<-2>>, <<-1, 0>>}}
DiamondRefs ==
    {<<Reference(-3, "X")>>,
     <<Reference(-3, "X"), Reference(-2, "Y")>>,
     <<Reference(-1, "Z"), Reference(-3, "X"), Reference(-2, "Y")>>}
InitDiamond ==
    /\ data \in {L1, L2}
    /\ timestamp \in Timestamps
    /\ \E ops \in DiamondOps, refs \in DiamondRefs :
          p = Proof(ops, TrustLits, refs)

\* Family "prove": the proofs a prove response may carry for the stream L1:
\* one operation over all the literals, the literals among the two digests
\* of L1 and the timestamp.
ProveLits ==
    {<<opSha2_256(L1), opSha3_512(L1), TS>>,
     <<opSha2_256(L1), opSha3_512(L1)>>,
     <<opSha2_256(L1), TS>>,
     <<opSha3_512(L1), TS>>,
     <<opSha2_256(L1)>>}
InitProve ==
    /\ data \in {<<>>, L1}
    /\ timestamp = 0
    /\ \E lits \in ProveLits, t \in Registered,
          refs \in {<<Reference(-1, "X")>>, <<Reference(-1, "X"), Reference(-1, "Y")>>} :
          p = Proof(<<Operation(t, [i \in 1..Len(lits) |-> i - 1])>>, lits, refs)

\* the exchanges send may observe
Exchange(io, code, body, st, s2, s3, ts) ==
    [io |-> io, code |-> code, body |-> body, Status |-> st,
     Sha2_256 |-> s2, Sha3_512 |-> s3, Timestamp |-> ts]
NoResponse == Exchange("none", 0, "none", "", <<>>, <<>>, <<>>)
Bodies ==
    {Exchange("ok", 200, "json", st, s2, s3, ts) :
        st \in {StatusReceived, StatusInChain, StatusProvable, "lost"},
        s2 \in {opSha2_256(L1), <<>>},
        s3 \in {opSha3_512(L1), <<>>},
        ts \in {<<"0">>, <<"2", "5", "8">>, <<"x">>, <<>>}}
Exchanges ==
    Bodies
    \cup {Exchange("doErr", 0, "none", "", <<>>, <<>>, <<>>),
          Exchange("readErr", 404, "none", "", <<>>, <<>>, <<>>),
          Exchange("ok", 200, "garbage", "", <<>>, <<>>, <<>>)}
    \cup {Exchange("ok", c, b, "", <<>>, <<>>, <<>>) :
            c \in {400, 404, 500}, b \in {"json", "garbage"}}

\* the tokens a caller passes: 16 bytes, 15 bytes, none
Tokens == {[i \in 1..16 |-> 0], [i \in 1..15 |-> 0], <<>>}

\* the third loop not entered
NoWalk == [ri |-> 0, stack |-> <<>>, tdata |-> <<>>, refData |-> <<>>, refs |-> <<>>]

Init ==
    /\ \/ entry = "Verify" /\ InitEarly
       \/ entry = "Verify" /\ InitOperations
       \/ entry = "Verify" /\ InitReferences
       \/ entry = "Verify" /\ InitTrust
       \/ entry = "Verify" /\ InitOrder
       \/ entry = "Verify" /\ InitDiamond
       \/ entry = "Prove" /\ InitProve
    /\ token = <<>>
    /\ resp = NoResponse
    /\ pc = "init"
    /\ result = NoResult
    /\ walk = NoWalk

----------------------------------------------------------------------------
(* The calls *)

\* p.Verify(data, timestamp)
CallVerify ==
    /\ pc = "init"
    /\ entry = "Verify"
    /\ \E mapOrder \in MapOrders : result' = Verify(p, data, timestamp, mapOrder)
    /\ pc' = "done"
    /\ UNCHANGED <<entry, p, data, timestamp, token, resp, walk>>

\* c.Prove(reader over data, token), the server answering with resp and p
CallProve ==
    /\ pc = "init"
    /\ entry = "Prove"
    /\ \E tok \in Tokens, x \in Exchanges, m1 \in MapOrders, m2 \in MapOrders :
          /\ token' = tok
          /\ resp' = x
          /\ result' = Prove(data, tok, x, p, m1, m2)
    /\ pc' = "done"
    /\ UNCHANGED <<entry, p, data, timestamp, walk>>

Next == CallVerify \/ CallProve

Spec == Init /\ [][Next]_vars

----------------------------------------------------------------------------
(* What the specification says of a document, stated over mathematical     *)
(* integers and independently of the code's loops                          *)

Called == pc = "done" /\ entry = "Verify"

\* input index d of the operation at 1-based position k resolves to a
\* literal or to the output of a strictly earlier operation
SoundInput(doc, k, d) ==
    \/ d >= 0 /\ d < Len(doc.Data)
    \/ d < 0 /\ 0 - d <= k - 1

SoundOperation(doc, k) ==
    /\ doc.Operations[k].Type \in Registered
    /\ Len(doc.Operations[k].Data) > 0
    /\ \A j \in 1..Len(doc.Operations[k].Data) :
          SoundInput(doc, k, doc.Operations[k].Data[j])

\* dataIndex d targets a materialized output
SoundTarget(doc, d) == d < 0 /\ 0 - d <= Len(doc.Operations)

SoundReference(doc, i) ==
    /\ doc.References[i].Ref # ""
    /\ SoundTarget(doc, doc.References[i].Data)

\* the document and the root pass validation steps 1 to 8
StructurallyValid(doc, d) ==
    /\ Len(d) > 0
    /\ Len(doc.Data) > 0
    /\ \A i \in 1..Len(doc.Data) : Len(doc.Data[i]) > 0
    /\ Len(doc.References) > 0
    /\ \A k \in 1..Len(doc.Operations) : SoundOperation(doc, k)
    /\ \A i \in 1..Len(doc.References) : SoundReference(doc, i)

RECURSIVE Concat(_)
\* the buffers of a sequence, one after the other
Concat(bufs) == IF bufs = <<>> THEN <<>> ELSE Head(bufs) \o Concat(Tail(bufs))

RECURSIVE OutputOf(_, _)
\* the output of the k-th operation (1-based) of a sound document
OutputOf(doc, k) ==
    LET in == doc.Operations[k].Data
        Resolved(d) == IF d >= 0 THEN doc.Data[d + 1] ELSE OutputOf(doc, 0 - d)
    IN ApplyOp(doc.Operations[k].Type, Concat([j \in 1..Len(in) |-> Resolved(in[j])]))

RECURSIVE LiteralsBelow(_, _)
\* the literal indices (0-based) reachable from the k-th operation
LiteralsBelow(doc, k) ==
    UNION {IF d >= 0 THEN {d} ELSE LiteralsBelow(doc, 0 - d)
           : d \in Range(doc.Operations[k].Data)}

RECURSIVE OperationsBelow(_, _)
\* the operations reachable from the k-th operation, itself included
OperationsBelow(doc, k) ==
    {k} \cup UNION {IF d >= 0 THEN {} ELSE OperationsBelow(doc, 0 - d)
                    : d \in Range(doc.Operations[k].Data)}

\* b is the 8-byte big-endian encoding of t, for 0 <= t < 2^24
IsBigEndian8(b, t) ==
    /\ Len(b) = 8
    /\ \A i \in 1..5 : b[i] = 0
    /\ b[6] * 65536 + b[7] * 256 + b[8] = t

\* some literal below the k-th operation equals the root data
ReachesRoot(doc, d, k) == \E l \in LiteralsBelow(doc, k) : doc.Data[l + 1] = d

\* some literal below the k-th operation is the encoding of timestamp ts
ReachesTimestamp(doc, ts, k) ==
    \E l \in LiteralsBelow(doc, k) : IsBigEndian8(doc.Data[l + 1], ts)

\* the operation the i-th reference targets
TargetOf(doc, i) == 0 - doc.References[i].Data

\* the acceptance rule of the specification for the i-th reference
Accepted(doc, d, ts, i) ==
    /\ ReachesRoot(doc, d, TargetOf(doc, i))
    /\ ts # 0 => ReachesTimestamp(doc, ts, TargetOf(doc, i))

\* the result rs holds an entry for the i-th reference: its locator and
\* the replayed output of its target
Holds(rs, doc, i) ==
    \E j \in 1..Len(rs) :
        /\ rs[j].ref = doc.References[i].Ref
        /\ rs[j].data = OutputOf(doc, TargetOf(doc, i))

ProofDoesNotApply == "the proof proves nothing for the input data"

----------------------------------------------------------------------------
(* Claims *)

ExampleProof == Proof(ExampleOps, <<L1>>, <<Reference(-2, "X")>>)

\* C1: for a structurally valid document and timestamp 0, if the root data
\* equals a literal reachable from a reference's target, Verify succeeds and
\* its result holds that reference with the replayed output of its target;
\* on the two-operation example the single result is
\* sha2_256(sha3_512(L) ++ L) with the reference's locator.
C1_ReplayedData ==
    (Called /\ timestamp = 0 /\ StructurallyValid(p, data)) =>
        /\ \A i \in 1..Len(p.References) :
              ReachesRoot(p, data, TargetOf(p, i)) =>
                  result.kind = "ok" /\ Holds(result.refs, p, i)
        /\ (p = ExampleProof /\ data = L1) =>
              /\ Len(result.refs) = 1
              /\ result.refs[1].data = opSha2_256(opSha3_512(L1) \o L1)
              /\ result.refs[1].ref = "X"

\* C1 witness: the example has been verified for its literal
C1_Witness ==
    Called /\ p = ExampleProof /\ data = L1 /\ timestamp = 0 /\ result.kind = "ok"

\* C2: for a structurally valid document a reference is in the result iff a
\* literal below its target equals the root data and, for a non-zero
\* timestamp only, a literal below its target equals the timestamp's 8-byte
\* big-endian encoding; with timestamp 0 no literal counts as matching the
\* timestamp.
C2_AcceptedIff ==
    (Called /\ StructurallyValid(p, data)) =>
        /\ \A i \in 1..Len(p.References) :
              Accepted(p, data, timestamp, i) => Holds(result.refs, p, i)
        /\ \A j \in 1..Len(result.refs) :
              \E i \in 1..Len(p.References) :
                  /\ Accepted(p, data, timestamp, i)
                  /\ result.refs[j].ref = p.References[i].Ref
                  /\ result.refs[j].data = OutputOf(p, TargetOf(p, i))
        /\ timestamp = 0 =>
              \A l \in 1..Len(p.Data), m \in MapOrders :
                  ~recData(p, data, TimestampData(timestamp), l - 1, m).okt

\* C2 witness: with a non-zero timestamp one reference is accepted and
\* another, which reaches the root data but not the timestamp, is not
C2_Witness ==
    /\ Called /\ StructurallyValid(p, data) /\ timestamp # 0
    /\ result.kind = "ok"
    /\ \E i \in 1..Len(p.References) :
          /\ ReachesRoot(p, data, TargetOf(p, i))
          /\ ~ReachesTimestamp(p, timestamp, TargetOf(p, i))
          /\ ~Holds(result.refs, p, i)

\* no literal of the document equals the root data
NoLiteralIsRoot == \A l \in 1..Len(p.Data) : p.Data[l] # data

\* C3 as stated: whenever no literal of the document equals the root data,
\* the call that returns fails with ProofDoesNotApply
C3_Original ==
    (/\ Called /\ result.kind # "panic"
     /\ Len(data) > 0 /\ Len(p.Data) > 0 /\ NoLiteralIsRoot) =>
        result = Err(ProofDoesNotApply)

\* C3 amended: for a document that passes validation steps 1 to 8, if no
\* literal below any reference's target equals the root data (no literal
\* equals it at all, it equals only an operation's output, or it equals only
\* literals no target reaches), Verify fails with ProofDoesNotApply and
\* returns no references.
C3_ProvesNothing ==
    (/\ Called /\ StructurallyValid(p, data)
     /\ \A i \in 1..Len(p.References) : ~ReachesRoot(p, data, TargetOf(p, i)))
    => result = Err(ProofDoesNotApply)

\* C3 witness: the root data equals the output of an operation below a
\* reference's target and no literal, and the call has failed
C3_Witness ==
    /\ Called /\ StructurallyValid(p, data) /\ NoLiteralIsRoot
    /\ \E i \in 1..Len(p.References) :
          \E k \in OperationsBelow(p, TargetOf(p, i)) : OutputOf(p, k) = data
    /\ result = Err(ProofDoesNotApply)

----------------------------------------------------------------------------
(* The order of validation *)

Min(S) == CHOOSE x \in S : \A y \in S : x <= y

\* the numbered validation steps a document and root violate, 1 to 8
ViolatedSteps(doc, d) ==
    {n \in 1..8 :
        \/ n = 1 /\ Len(d) = 0
        \/ n = 2 /\ (Len(doc.Data) = 0 \/ \E i \in 1..Len(doc.Data) : Len(doc.Data[i]) = 0)
        \/ n = 3 /\ Len(doc.References) = 0
        \/ n = 4 /\ \E k \in 1..Len(doc.Operations) :
                        doc.Operations[k].Type \notin Registered
        \/ n = 5 /\ \E k \in 1..Len(doc.Operations) : Len(doc.Operations[k].Data) = 0
        \/ n = 6 /\ \E k \in 1..Len(doc.Operations) :
                        \E j \in 1..Len(doc.Operations[k].Data) :
                            ~SoundInput(doc, k, doc.Operations[k].Data[j])
        \/ n = 7 /\ \E i \in 1..Len(doc.References) : doc.References[i].Ref = ""
        \/ n = 8 /\ \E i \in 1..Len(doc.References) :
                        ~SoundTarget(doc, doc.References[i].Data)}

\* the step a reported error belongs to
StepOf(msg) ==
    CASE msg = "no data to verify" -> 1
      [] msg \in {"no data in proof", "data number is empty"} -> 2
      [] msg = "no referene" -> 3
      [] msg = "unknown operation" -> 4
      [] msg = "each operation mush have an input" -> 5
      [] msg \in {"referencing a output not yet calculated",
                  "refering to undefined data element"} -> 6
      [] msg = "cannot have empty reference" -> 7
      [] msg \in {"reference refers to non-existing data",
                  "reference must refer to calculated data"} -> 8
      [] msg = ProofDoesNotApply -> 9
      [] OTHER -> 0

\* the error of the first thing wrong with the k-th operation
OperationError(doc, k) ==
    LET o == doc.Operations[k] IN
    IF o.Type \notin Registered THEN "unknown operation"
    ELSE IF Len(o.Data) = 0 THEN "each operation mush have an input"
    ELSE LET j == Min({x \in 1..Len(o.Data) : ~SoundInput(doc, k, o.Data[x])}) IN
        IF o.Data[j] < 0 THEN "referencing a output not yet calculated"
        ELSE "refering to undefined data element"

\* the error of the first thing wrong with the i-th reference
ReferenceError(doc, i) ==
    LET r == doc.References[i] IN
    IF r.Ref = "" THEN "cannot have empty reference"
    ELSE IF r.Data >= 0 /\ r.Data < Len(doc.Data)
    THEN "reference must refer to calculated data"
    ELSE "reference refers to non-existing data"

UnsoundOperations(doc) == {k \in 1..Len(doc.Operations) : ~SoundOperation(doc, k)}
UnsoundReferences(doc) == {i \in 1..Len(doc.References) : ~SoundReference(doc, i)}

\* the error of the first violation in the order: root, literal list,
\* reference list; the operations in declared order, each for its type, its
\* input count, its inputs in order; the references in declared order, each
\* for its locator, then its target; last, nothing proved
FirstViolation(doc, d, ts) ==
    IF Len(d) = 0 THEN "no data to verify"
    ELSE IF Len(doc.Data) = 0 THEN "no data in proof"
    ELSE IF \E i \in 1..Len(doc.Data) : Len(doc.Data[i]) = 0 THEN "data number is empty"
    ELSE IF Len(doc.References) = 0 THEN "no referene"
    ELSE IF UnsoundOperations(doc) # {}
    THEN OperationError(doc, Min(UnsoundOperations(doc)))
    ELSE IF UnsoundReferences(doc) # {}
    THEN ReferenceError(doc, Min(UnsoundReferences(doc)))
    ELSE IF \A i \in 1..Len(doc.References) : ~Accepted(doc, d, ts, i)
    THEN ProofDoesNotApply
    ELSE ""

InputIndexFirst ==
    /\ ViolatedSteps(p, data) \cap {1, 2, 3} = {}
    /\ UnsoundOperations(p) # {}
    /\ LET o == p.Operations[Min(UnsoundOperations(p))]
       IN o.Type \in Registered /\ Len(o.Data) > 0

\* C5: an input index that is out of range, whatever its value, makes the
\* call that reaches it return DanglingReference without reading out of range
C5_Original ==
    (Called /\ InputIndexFirst) =>
        /\ result.kind = "error"
        /\ StepOf(result.err) = 6

\* the first violation of the document is the target of a reference
TargetFirst ==
    /\ ViolatedSteps(p, data) \cap (1..7) = {}
    /\ UnsoundReferences(p) # {}

\* C6: in a document that passes the earlier checks, a reference whose
\* dataIndex is non-negative or below the range of the outputs, whatever its
\* value, makes the call return InvalidReferenceTarget without reading out
\* of range
C6_Original ==
    (Called /\ TargetFirst) =>
        /\ result.kind = "error"
        /\ StepOf(result.err) = 8

----------------------------------------------------------------------------
(* The hash functions of a trust chain and the order of the result *)

\* literal l (0-based) equals the root data or, for a non-zero timestamp,
\* the encoding of the timestamp
Matching(doc, d, ts, l) ==
    \/ doc.Data[l + 1] = d
    \/ ts # 0 /\ IsBigEndian8(doc.Data[l + 1], ts)

\* the operations on a path from the k-th operation down to a matching literal
OnTrustPath(doc, d, ts, k) ==
    {j \in OperationsBelow(doc, k) :
        \E l \in LiteralsBelow(doc, j) : Matching(doc, d, ts, l)}

\* the type names the i-th reference relies on
TrustedNames(doc, d, ts, i) ==
    {doc.Operations[j].Type : j \in OnTrustPath(doc, d, ts, TargetOf(doc, i))}

\* s comes before t in lexicographic order, for the names a document carries
LexBefore(s, t) ==
    <<s, t>> \in {<<"md5", "sha2_256">>, <<"md5", "sha3_512">>, <<"sha2_256", "sha3_512">>}

\* h is sorted and free of duplicates
StrictlySorted(h) == \A a \in 1..Len(h), b \in 1..Len(h) : a < b => LexBefore(h[a], h[b])

\* the entry e of a result is the one of the i-th reference
EntryOf(e, doc, d, ts, i) ==
    /\ Accepted(doc, d, ts, i)
    /\ e.ref = doc.References[i].Ref
    /\ e.data = OutputOf(doc, TargetOf(doc, i))
    /\ Range(e.hashes) = TrustedNames(doc, d, ts, i)

\* C7: the hash functions of every returned reference are a sorted list
\* without duplicates of exactly the type names of the operations on a path
\* from the reference's target down to a literal equal to the root data (or
\* to the encoding of a non-zero timestamp); shared operations count once,
\* operations reaching no matching literal not at all.
C7_HashFunctions ==
    (Called /\ result.kind = "ok") =>
        /\ \A j \in 1..Len(result.refs) :
              /\ StrictlySorted(result.refs[j].hashes)
              /\ \E i \in 1..Len(p.References) :
                    EntryOf(result.refs[j], p, data, timestamp, i)
        /\ \A i \in 1..Len(p.References) :
              Accepted(p, data, timestamp, i) =>
                  \E j \in 1..Len(result.refs) :
                      EntryOf(result.refs[j], p, data, timestamp, i)

\* C7 witness: two references are returned, one of them targets the third
\* operation, which reaches the first one both directly and through the
\* second, all three on the trust path and of two different types
C7_Witness ==
    /\ Called /\ result.kind = "ok" /\ Len(result.refs) >= 2
    /\ \E i \in 1..Len(p.References) :
          /\ Accepted(p, data, timestamp, i)
          /\ TargetOf(p, i) = 3
          /\ p.Operations[3].Data \in {<<-1, -2>>, <<-2, -1>>}
          /\ -1 \in Range(p.Operations[2].Data)
          /\ OnTrustPath(p, data, timestamp, 3) = {1, 2, 3}
          /\ Cardinality(TrustedNames(p, data, timestamp, i)) = 2

\* the indices of the accepted references, in document order
AcceptedIndices(doc, d, ts) ==
    SelectSeq([i \in 1..Len(doc.References) |-> i], LAMBDA i : Accepted(doc, d, ts, i))

\* rs lists the accepted references of doc in document order
FollowsOrder(rs, doc, d, ts) ==
    LET idx == AcceptedIndices(doc, d, ts) IN
    /\ Len(rs) = Len(idx)
    /\ \A j \in 1..Len(rs) :
          /\ rs[j].ref = doc.References[idx[j]].Ref
          /\ rs[j].data = OutputOf(doc, TargetOf(doc, idx[j]))

\* a and b hold the same entries the same number of times
SameEntries(a, b) ==
    /\ Len(a) = Len(b)
    /\ \A x \in Range(a) \cup Range(b) :
          Cardinality({j \in 1..Len(a) : a[j] = x}) = Cardinality({j \in 1..Len(b) : b[j] = x})

\* doc with its references rearranged by the permutation f
Rearranged(doc, f) ==
    [doc EXCEPT !.References = [i \in 1..Len(doc.References) |-> doc.References[f[i]]]]

\* C8: the accepted references are returned in document order; rearranging
\* the reference list of a structurally valid document gives the same
\* entries (data, locator, hash functions), in the order of the new list.
C8_ReferenceOrder ==
    (Called /\ StructurallyValid(p, data)) =>
        /\ result.kind = "ok" => FollowsOrder(result.refs, p, data, timestamp)
        /\ \A f \in Permutations(1..Len(p.References)), m \in MapOrders :
              LET q == Rearranged(p, f)
                  v == Verify(q, data, timestamp, m)
              IN /\ v.kind = result.kind
                 /\ v.err = result.err
                 /\ SameEntries(v.refs, result.refs)
                 /\ v.kind = "ok" => FollowsOrder(v.refs, q, data, timestamp)

\* C8 witness: at least two different entries have been returned from a
\* list that also holds a reference that was not accepted
C8_Witness ==
    /\ Called /\ StructurallyValid(p, data) /\ result.kind = "ok"
    /\ Len(result.refs) >= 2 /\ result.refs[1] # result.refs[2]
    /\ Len(p.References) > Len(result.refs)

\* C9: every call returns an error and no references, or no error and at
\* least one reference, and a structural violation anywhere makes it
\* return an error
C9_Original ==
    Called =>
        /\ \/ result.kind = "error" /\ result.refs = <<>>
           \/ result.kind = "ok" /\ Len(result.refs) > 0
        /\ ~StructurallyValid(p, data) => result.kind = "error"

----------------------------------------------------------------------------
(* Client.Prove *)

Proved == pc = "done" /\ entry = "Prove"

\* the server answered with a decodable 200 response of status st
Answered(st) == resp.code = 200 /\ resp.body = "json" /\ resp.Status = st

\* C10: with non-empty data and a 16-byte token, Prove returns
\* ErrStatusNotFound on a 404, ErrStatusReceived on a response of status
\* "received" and ErrStatusInChain on one of status "chained"; it returns
\* references only for status "provable", digests equal to the local ones,
\* and a proof that verifies for both digests with the returned timestamp
C10_Original ==
    (Proved /\ Len(data) > 0 /\ Len(token) = 16 /\ resp.io = "ok") =>
        /\ resp.code = 404 => result = ProveErr(ErrStatusNotFound)
        /\ Answered(StatusReceived) => result = ProveErr(ErrStatusReceived)
        /\ Answered(StatusInChain) => result = ProveErr(ErrStatusInChain)
        /\ result.kind = "ok" =>
              /\ Answered(StatusProvable)
              /\ resp.Sha2_256 = opSha2_256(data)
              /\ resp.Sha3_512 = opSha3_512(data)
              /\ \A m \in MapOrders :
                    /\ Verify(p, opSha2_256(data), result.ts, m).kind = "ok"
                    /\ Verify(p, opSha3_512(data), result.ts, m).kind = "ok"

----------------------------------------------------------------------------
(* Proof.Verify step by step: the checks and the first two loops as one    *)
(* step, then the third loop with every call of and return from recData    *)
(* as a step of its own.  walk holds the locals of Verify in that loop     *)
(* (ri, tdata, refData, refs) and the stack of recData's activations; a    *)
(* frame holds the argument pos, the input j its loop visits next, and     *)
(* the locals o1, o2 and h.                                                *)

\* Verify up to the end of its second loop: the error or panic that ends
\* it there, or refData when the third loop is reached
VerifyPrefix(doc, d) ==
    IF Len(d) <= 0 THEN Err("no data to verify")
    ELSE IF Len(doc.Data) <= 0 THEN Err("no data in proof")
    ELSE IF \E i \in 1..Len(doc.Data) : Len(doc.Data[i]) < 1
    THEN Err("data number is empty")
    ELSE IF Len(doc.References) <= 0 THEN Err("no referene")
    ELSE LET ops == RunOperations(doc, 1, <<>>) IN
        IF ops.kind # "ok" THEN ops
        ELSE ResolveReferences(doc, 1, ops.out, <<>>)

Frame(pos) == [pos |-> pos, j |-> 1, o1 |-> FALSE, o2 |-> FALSE, h |-> {}]
Top == walk.stack[Len(walk.stack)]

\* recData can read what pos names: p.Data[pos] or p.Operations[-pos-1]
Readable(pos) ==
    IF pos >= 0 THEN InBounds(p.Data, pos)
    ELSE InBounds(p.Operations, Sub(Neg(pos), 1))

\* the inputs the activation f ranges over: none at a literal
InputsOf(f) == IF f.pos >= 0 THEN <<>> ELSE OperationAt(p, f.pos).Data

\* what the activation f returns once its loop is over
Returned(f, mapOrder) ==
    IF f.pos >= 0
    THEN [okd |-> data = p.Data[f.pos + 1],
          okt |-> walk.tdata = p.Data[f.pos + 1],
          hashes |-> <<>>]
    ELSE [okd |-> f.o1,
          okt |-> f.o2,
          hashes |-> SelectSeq(mapOrder, LAMBDA k : k \in f.h)]

\* the body of recData's loop in the activation f, for the input that
\* returned r
Merged(f, r) ==
    IF r.okd \/ r.okt THEN
        LET o == OperationAt(p, f.pos)
            add == \A i \in 1..Len(r.hashes) : r.hashes[i] # o.Type
            hashes == IF add THEN Append(r.hashes, o.Type) ELSE r.hashes
        IN [f EXCEPT !.o1 = f.o1 \/ r.okd,
                     !.o2 = f.o2 \/ r.okt,
                     !.h = f.h \cup Range(hashes)]
    ELSE f

\* the body of Verify's third loop for the reference whose walk returned r
Kept(r) ==
    IF r.okd /\ (Len(walk.tdata) = 0 \/ r.okt)
    THEN Append(walk.refs, [walk.refData[walk.ri] EXCEPT !.hashes = SortStrings(r.hashes)])
    ELSE walk.refs

\* the call ends before the third loop
FailBeforeWalk ==
    /\ pc = "init"
    /\ entry = "Verify"
    /\ VerifyPrefix(p, data).kind # "ok"
    /\ result' = VerifyPrefix(p, data)
    /\ pc' = "done"
    /\ UNCHANGED <<entry, p, data, timestamp, token, resp, walk>>

\* the third loop is reached
EnterWalk ==
    /\ pc = "init"
    /\ entry = "Verify"
    /\ VerifyPrefix(p, data).kind = "ok"
    /\ pc' = "walk"
    /\ walk' = [ri |-> 1, stack |-> <<>>, tdata |-> TimestampData(timestamp),
                refData |-> VerifyPrefix(p, data).refData, refs |-> <<>>]
    /\ UNCHANGED <<entry, p, data, timestamp, token, resp, result>>

\* a call recData(p, data, tdata, pos): a new activation, or the panic of
\* its first read
Activated(pos) ==
    IF Readable(pos)
    THEN /\ UNCHANGED <<pc, result>>
    ELSE /\ pc' = "done"
         /\ result' = Panic

\* the loop calls recData for the position of its next reference
CallRecData ==
    /\ pc = "walk"
    /\ walk.stack = <<>>
    /\ walk.ri <= Len(p.References)
    /\ walk' = [walk EXCEPT !.stack = <<Frame(p.References[walk.ri].Data)>>]
    /\ Activated(p.References[walk.ri].Data)
    /\ UNCHANGED <<entry, p, data, timestamp, token, resp>>

\* recData at an operation calls itself for its next input nPos
Descend ==
    /\ pc = "walk"
    /\ walk.stack # <<>>
    /\ Top.j <= Len(InputsOf(Top))
    /\ walk' = [walk EXCEPT !.stack = Append(walk.stack, Frame(InputsOf(Top)[Top.j]))]
    /\ Activated(InputsOf(Top)[Top.j])
    /\ UNCHANGED <<entry, p, data, timestamp, token, resp>>

\* recData returns, at once at a literal and after its last input at an
\* operation: to the activation that called it, which goes on to its next
\* input, or to Verify, which goes on to its next reference
Return ==
    /\ pc = "walk"
    /\ walk.stack # <<>>
    /\ Top.j > Len(InputsOf(Top))
    /\ \E mapOrder \in MapOrders :
          LET r == Returned(Top, mapOrder)
              n == Len(walk.stack)
          IN walk' = IF n = 1
                     THEN [walk EXCEPT !.stack = <<>>,
                                       !.refs = Kept(r),
                                       !.ri = walk.ri + 1]
                     ELSE [walk EXCEPT !.stack =
                              Append(SubSeq(walk.stack, 1, n - 2),
                                     [Merged(walk.stack[n - 1], r)
                                         EXCEPT !.j = walk.stack[n - 1].j + 1])]
    /\ UNCHANGED <<entry, p, data, timestamp, token, resp, pc, result>>

\* the loop has ended: Verify returns
FinishWalk ==
    /\ pc = "walk"
    /\ walk.stack = <<>>
    /\ walk.ri > Len(p.References)
    /\ result' = IF Len(walk.refs) <= 0
                 THEN Err("the proof proves nothing for the input data")
                 ELSE Ok(walk.refs)
    /\ pc' = "done"
    /\ UNCHANGED <<entry, p, data, timestamp, token, resp, walk>>

\* the documents the stepwise call runs on
InitWalk ==
    /\ entry = "Verify"
    /\ \/ InitOperations
       \/ InitReferences
       \/ InitOrder
       \/ InitDiamond
    /\ token = <<>>
    /\ resp = NoResponse
    /\ pc = "init"
    /\ result = NoResult
    /\ walk = NoWalk

\* a step of the third loop
WalkStep == CallRecData \/ Descend \/ Return \/ FinishWalk

NextWalk == FailBeforeWalk \/ EnterWalk \/ WalkStep

\* Verify is sequential code: once in its third loop it takes the loop's
\* next step as long as there is one
SpecWalk == InitWalk /\ [][NextWalk]_vars /\ WF_vars(WalkStep)

\* the stepwise call returns what the call as a whole returns
WalkAgreesWithVerify ==
    (entry = "Verify" /\ pc = "done" /\ walk # NoWalk)
        => \E mapOrder \in MapOrders : result = Verify(p, data, timestamp, mapOrder)

----------------------------------------------------------------------------
(* The walk ends *)

\* every input index of every operation is a valid literal index or refers
\* to a strictly earlier operation
AllInputsSound ==
    \A k \in 1..Len(p.Operations) :
        \A j \in 1..Len(p.Operations[k].Data) :
            LET d == p.Operations[k].Data[j] IN
            \/ d >= 0 /\ d < Len(p.Data)
            \/ d < 0 /\ 1 <= 0 - d /\ 0 - d <= k - 1

\* the activations of recData: the outermost at an operation of the
\* document, each next one at a literal or at a strictly earlier operation
StackDescends ==
    \A n \in 1..Len(walk.stack) :
        LET pos == walk.stack[n].pos IN
        IF n = 1 THEN pos < 0 /\ 0 - pos <= Len(p.Operations)
        ELSE \/ pos >= 0 /\ pos < Len(p.Data)
             \/ pos < 0 /\ walk.stack[n - 1].pos < pos

WalkIsSound == pc = "walk" => (AllInputsSound /\ StackDescends)

\* C11: whenever Verify reaches the trust walk, every negative input index
\* -k of the operation at 0-based position i has 1 <= k <= i and every
\* non-negative one is a valid literal index; every step of recData moves
\* to a literal or to a strictly earlier operation; and Verify terminates.
C11_WalkTerminates == [](WalkIsSound) /\ ((pc = "walk") ~> (pc = "done"))

\* C11 witness: recData is four activations deep, down three operations to
\* a literal
C11_Witness ==
    /\ pc = "walk"
    /\ Len(walk.stack) = 4
    /\ \A n \in 1..3 : walk.stack[n].pos < 0
    /\ Top.pos >= 0

====
